---- MODULE Spec2Model ----
(***************************************************************************)
(* Model of src/src/generate_labels.py: one run of main().                 *)
(*                                                                         *)
(* Lengths are exact rationals in the program (multiples of mm and inch);  *)
(* the model measures them in hundredths of a millimetre, the coarsest     *)
(* unit in which every length and every quotient the program computes is   *)
(* an integer (1 inch = 25.4 mm).  Floating-point rounding is not          *)
(* modelled.                                                               *)
(*                                                                         *)
(* Strings are sequences of one-character strings, so that formatting a    *)
(* number is an operation with a result that can be inspected.             *)
(***************************************************************************)
EXTENDS Integers, Sequences, FiniteSets

(***************************************************************************)
(* Bounds of the model and the inputs a run is started with.               *)
(***************************************************************************)
MaxCount == 49
MaxTemplatePages == 2

StartValues == {-3, 5, 9990}
Prefixes == {<<"K", "-">>}
\* Room the QR encoder has left for the identifier once base_url is in the
\* payload (encoder capacity minus len(base_url)).
QrRooms == {5, 6, 12}
TemplateFiles ==
    {[state |-> "missing", pages |-> 0], [state |-> "malformed", pages |-> 0]}
    \cup {[state |-> "ok", pages |-> n] : n \in 0..MaxTemplatePages}

(***************************************************************************)
(* Units (reportlab.lib.units), in hundredths of a millimetre.             *)
(***************************************************************************)
mm == 100
inch == 2540

(***************************************************************************)
(* create_qr_overlay: geometry constants.                                  *)
(***************************************************************************)
cols == 4
rows == 6
label_width == 38 * mm
label_height == 38 * mm
left_margin == 18 * mm
top_margin == 13 * mm
horizontal_spacing == 8 * mm
page_width == (17 * inch) \div 2
page_height == 11 * inch
start_x == left_margin
start_y == 11 * inch - top_margin - label_height
x_spacing == label_width + horizontal_spacing
available_height == page_height - (2 * top_margin)
vertical_gap_rows == (available_height - (rows * label_height)) \div rows
vertical_gap == (available_height - (rows * label_height)) \div (rows - 1)
y_spacing == label_height + vertical_gap
qr_size == 32 * mm
labels_per_page == cols * rows

LabelLeft(col) == start_x + (col * x_spacing)
LabelBottom(row) == start_y - (row * y_spacing)
QrX(label_left) == label_left + (label_width - qr_size) \div 2
QrYHigh(label_bottom) == label_bottom + 8 * mm
QrY(label_bottom) == label_bottom + 4 * mm

NewPageEvery(i) == i % labels_per_page = 0
NewPageNeeded(i) == i > 0 /\ i % labels_per_page = 0

(***************************************************************************)
(* f"{current_num:04d}": sign first, then zeros up to a total width of 4,  *)
(* then the decimal digits.                                                *)
(***************************************************************************)
DigitChars == <<"0", "1", "2", "3", "4", "5", "6", "7", "8", "9">>

RECURSIVE Digits(_)
Digits(n) ==
    IF n < 10 THEN <<DigitChars[n + 1]>>
    ELSE Digits(n \div 10) \o <<DigitChars[(n % 10) + 1]>>

RECURSIVE ZeroPad(_, _)
ZeroPad(s, w) == IF Len(s) >= w THEN s ELSE ZeroPad(<<"0">> \o s, w)

FormatTruncating(n) ==
    IF n < 0 THEN <<"-">> \o ZeroPad(Digits((-n) % 1000), 3)
    ELSE ZeroPad(Digits(n % 10000), 4)
Format04d(n) ==
    IF n < 0 THEN <<"-">> \o ZeroPad(Digits(-n), 3)
    ELSE ZeroPad(Digits(n), 4)

ItemId(pfx, num) == pfx \o Format04d(num)

(***************************************************************************)
(* Documents: a page is the template artwork it carries (0: none, p: the   *)
(* artwork of template page p) and the QR+caption pairs drawn on it.       *)
(***************************************************************************)
BlankPage == [art |-> 0, labels |-> <<>>]
TemplatePage(p) == [art |-> p, labels |-> <<>>]

Label(i, num, pfx) ==
    LET page_index == i % labels_per_page
        col == page_index % cols
        row == page_index \div cols
        label_left == LabelLeft(col)
        label_bottom == LabelBottom(row)
    IN  [idx |-> i, id |-> ItemId(pfx, num), row |-> row, col |-> col,
         left |-> label_left, bottom |-> label_bottom,
         qr_x |-> QrX(label_left), qr_y |-> QrY(label_bottom)]

\* PageObject.merge_page: the overlay page's content is added to the page.
MergePageInto(page, overlay_page) ==
    [page EXCEPT !.labels = @ \o overlay_page.labels]

TemplatePageIndexPerOverlay(k) == k
TemplatePageIndex(k) == 0

UseTemplateAlways(flag) == TRUE
UseTemplate(flag) == ~flag

SheetsOffByOne(n) == (n + 24) \div 24
Sheets(n) == (n + 23) \div 24

VARIABLES
    start, count, prefix, qr_room, no_template, template,
    pc, i, current_num, c_pages, c_code, overlay,
    template_read, template_pdf, writer_copies, writer, j,
    output_written, output, sheets

vars == <<start, count, prefix, qr_room, no_template, template,
          pc, i, current_num, c_pages, c_code, overlay,
          template_read, template_pdf, writer_copies, writer, j,
          output_written, output, sheets>>

args == <<start, count, prefix, qr_room, no_template, template>>
canvasVars == <<i, current_num, c_pages, c_code, overlay>>
mergeVars == <<template_read, template_pdf, writer_copies, writer, j>>
fileVars == <<output_written, output>>

Init ==
    /\ start \in StartValues
    /\ count \in 0..MaxCount
    /\ prefix \in Prefixes
    /\ qr_room \in QrRooms
    /\ no_template \in BOOLEAN
    /\ template \in TemplateFiles
    /\ pc = "overlay"
    /\ i = 0
    /\ current_num = start
    /\ c_pages = <<>>
    /\ c_code = <<>>
    /\ overlay = <<>>
    /\ template_read = FALSE
    /\ template_pdf = <<>>
    /\ writer_copies = FALSE
    /\ writer = <<>>
    /\ j = 0
    /\ output_written = FALSE
    /\ output = <<>>
    /\ sheets = -1

(***************************************************************************)
(* create_qr_overlay, one iteration of the label loop.                     *)
(***************************************************************************)
QrFits(item_id) == Len(item_id) <= qr_room

\* Canvas.showPage: the current page is closed, whatever is on it.
ShowPage(pages, code) == Append(pages, [art |-> 0, labels |-> code])

DrawLabel ==
    /\ pc = "overlay"
    /\ i < count
    /\ QrFits(ItemId(prefix, current_num))
    /\ LET brk == NewPageNeeded(i)
           pages == IF brk THEN ShowPage(c_pages, c_code) ELSE c_pages
           code == IF brk THEN <<>> ELSE c_code
       IN  /\ c_pages' = pages
           /\ c_code' = Append(code, Label(i, current_num, prefix))
    /\ current_num' = current_num + 1
    /\ i' = i + 1
    /\ UNCHANGED <<args, pc, overlay, mergeVars, fileVars, sheets>>

\* generate_qr_code raises: the payload does not fit a QR symbol.
DrawLabelFails ==
    /\ pc = "overlay"
    /\ i < count
    /\ ~QrFits(ItemId(prefix, current_num))
    /\ pc' = "failed"
    /\ c_pages' = (IF NewPageNeeded(i) THEN ShowPage(c_pages, c_code) ELSE c_pages)
    /\ c_code' = (IF NewPageNeeded(i) THEN <<>> ELSE c_code)
    /\ UNCHANGED <<args, i, current_num, overlay, mergeVars, fileVars, sheets>>

\* c.save(): a page with content on it is closed, then the document is
\* written to the packet.
SaveCanvas ==
    /\ pc = "overlay"
    /\ i = count
    /\ LET pages == IF c_code # <<>> THEN ShowPage(c_pages, c_code) ELSE c_pages
       IN  /\ c_pages' = pages
           /\ overlay' = pages
    /\ c_code' = <<>>
    /\ pc' = "built"
    /\ UNCHANGED <<args, i, current_num, mergeVars, fileVars, sheets>>

(***************************************************************************)
(* main, --no-template branch.                                             *)
(***************************************************************************)
WriteOverlay ==
    /\ pc = "built"
    /\ ~UseTemplate(no_template)
    /\ output_written' = TRUE
    /\ output' = overlay
    /\ pc' = "written"
    /\ UNCHANGED <<args, canvasVars, mergeVars, sheets>>

(***************************************************************************)
(* merge_pdfs.                                                             *)
(***************************************************************************)
\* PdfReader(template_path), PdfReader(overlay_buffer), PdfWriter().
\* PdfWriter.add_page keeps a reference to the page it is given or copies
\* it, depending on the library version.
OpenTemplate ==
    /\ pc = "built"
    /\ UseTemplate(no_template)
    /\ template.state = "ok"
    /\ template_read' = TRUE
    /\ template_pdf' = [p \in 1..template.pages |-> TemplatePage(p)]
    /\ writer_copies' \in BOOLEAN
    /\ writer' = <<>>
    /\ j' = 0
    /\ pc' = "merge"
    /\ UNCHANGED <<args, canvasVars, fileVars, sheets>>

OpenTemplateFails ==
    /\ pc = "built"
    /\ UseTemplate(no_template)
    /\ template.state # "ok"
    /\ template_read' = TRUE
    /\ pc' = "failed"
    /\ UNCHANGED <<args, canvasVars, template_pdf, writer_copies, writer, j,
                   fileVars, sheets>>

MergePage ==
    /\ pc = "merge"
    /\ j < Len(overlay)
    /\ TemplatePageIndex(j) < Len(template_pdf)
    /\ LET t == TemplatePageIndex(j) + 1
           merged == MergePageInto(template_pdf[t], overlay[j + 1])
       IN  /\ template_pdf' = [template_pdf EXCEPT ![t] = merged]
           /\ writer' = Append(writer,
                               IF writer_copies
                               THEN [ref |-> 0, page |-> merged]
                               ELSE [ref |-> t, page |-> BlankPage])
    /\ j' = j + 1
    /\ UNCHANGED <<args, pc, canvasVars, template_read, writer_copies,
                   fileVars, sheets>>

\* template_pdf.pages[0] raises IndexError.
MergePageFails ==
    /\ pc = "merge"
    /\ j < Len(overlay)
    /\ TemplatePageIndex(j) >= Len(template_pdf)
    /\ pc' = "failed"
    /\ UNCHANGED <<args, canvasVars, mergeVars, fileVars, sheets>>

\* What the writer holds: a referenced page is the page as it is now.
WriterDoc ==
    [k \in 1..Len(writer) |->
        IF writer[k].ref = 0 THEN writer[k].page ELSE template_pdf[writer[k].ref]]

WriteMerged ==
    /\ pc = "merge"
    /\ j = Len(overlay)
    /\ output_written' = TRUE
    /\ output' = WriterDoc
    /\ pc' = "written"
    /\ UNCHANGED <<args, canvasVars, mergeVars, sheets>>

(***************************************************************************)
(* main, the summary after the output is written.                          *)
(***************************************************************************)
PrintSummary ==
    /\ pc = "written"
    /\ sheets' = Sheets(count)
    /\ pc' = "done"
    /\ UNCHANGED <<args, canvasVars, mergeVars, fileVars>>

Next ==
    \/ DrawLabel
    \/ DrawLabelFails
    \/ SaveCanvas
    \/ WriteOverlay
    \/ OpenTemplate
    \/ OpenTemplateFails
    \/ MergePage
    \/ MergePageFails
    \/ WriteMerged
    \/ PrintSummary

Spec == Init /\ [][Next]_vars

(***************************************************************************)
(* Vocabulary of the properties.                                           *)
(***************************************************************************)
\* The pages of the canvas, the page being drawn included.
CanvasPages ==
    c_pages \o (IF c_code = <<>> THEN <<>> ELSE <<[art |-> 0, labels |-> c_code]>>)

RECURSIVE LabelsOf(_)
LabelsOf(pages) ==
    IF pages = <<>> THEN <<>> ELSE pages[1].labels \o LabelsOf(Tail(pages))

\* Every label drawn so far, in drawing order.
DrawnLabels == LabelsOf(CanvasPages)

IsDigit(ch) == \E d \in 1..10 : DigitChars[d] = ch
DigitOf(ch) == (CHOOSE d \in 1..10 : DigitChars[d] = ch) - 1
AllDigits(s) == \A k \in 1..Len(s) : IsDigit(s[k])

RECURSIVE DecValue(_)
DecValue(s) ==
    IF s = <<>> THEN 0
    ELSE 10 * DecValue(SubSeq(s, 1, Len(s) - 1)) + DigitOf(s[Len(s)])

\* s is the decimal numeral of n >= 0, zero-padded to at least w digits and
\* no further, with no digit lost.
PaddedNumeral(s, n, w) ==
    /\ Len(s) >= w
    /\ AllDigits(s)
    /\ DecValue(s) = n
    /\ Len(s) > w => s[1] # "0"

HasPrefix(id) == Len(id) >= Len(prefix) /\ SubSeq(id, 1, Len(prefix)) = prefix
NumberPart(id) == SubSeq(id, Len(prefix) + 1, Len(id))

\* Labels come in increasing index order, contiguous from 0, each carrying
\* the prefix, and no identifier occurs twice.
SequencedAndDistinct(D) ==
    /\ \A k \in 1..Len(D) : D[k].idx = k - 1 /\ HasPrefix(D[k].id)
    /\ \A k, m \in 1..Len(D) : k # m => D[k].id # D[m].id

\* The least q with q * d >= n.
CeilDiv(n, d) == CHOOSE q \in 0..n : q * d >= n /\ (q = 0 \/ (q - 1) * d < n)

\* Closed boxes <<left, bottom, width, height>>.
Inside(a, b) ==
    /\ b[1] <= a[1] /\ a[1] + a[3] <= b[1] + b[3]
    /\ b[2] <= a[2] /\ a[2] + a[4] <= b[2] + b[4]
Disjoint(a, b) ==
    \/ a[1] + a[3] <= b[1] \/ b[1] + b[3] <= a[1]
    \/ a[2] + a[4] <= b[2] \/ b[2] + b[4] <= a[2]
Cell(L) == <<L.left, L.bottom, label_width, label_height>>
QrBox(L) == <<L.qr_x, L.qr_y, qr_size, qr_size>>
PageBox == <<0, 0, page_width, page_height>>

(***************************************************************************)
(* C1                                                                      *)
(***************************************************************************)
\* C1 as stated: label i carries prefix + decimal(start + i) zero-padded to
\* at least 4 digits, never truncated, for every start value; identifiers
\* are in index order, contiguous from start and pairwise distinct.
C1_FourDigitIdentifiers ==
    /\ SequencedAndDistinct(DrawnLabels)
    /\ \A k \in 1..Len(DrawnLabels) :
          PaddedNumeral(NumberPart(DrawnLabels[k].id), start + (k - 1), 4)

\* C1 amended: label i carries prefix + decimal(start + i) zero-padded to a
\* minimum width of 4 characters, the minus sign of a negative number
\* counting toward the width (4 digits when start + i >= 0, a sign and 3
\* digits when it is negative), never truncated; identifiers are in index
\* order, contiguous from start and pairwise distinct.
C1_SignAwareIdentifiers ==
    /\ SequencedAndDistinct(DrawnLabels)
    /\ \A k \in 1..Len(DrawnLabels) :
          LET n == start + (k - 1)
              s == NumberPart(DrawnLabels[k].id)
          IN  IF n >= 0 THEN PaddedNumeral(s, n, 4)
              ELSE /\ Len(s) >= 1 /\ s[1] = "-"
                   /\ PaddedNumeral(Tail(s), -n, 3)

\* 9999 is followed by 10000 in one run.
C1_Witness ==
    \E k \in 1..(Len(DrawnLabels) - 1) :
        /\ DrawnLabels[k].id = prefix \o <<"9", "9", "9", "9">>
        /\ DrawnLabels[k + 1].id = prefix \o <<"1", "0", "0", "0", "0">>

(***************************************************************************)
(* C2                                                                      *)
(***************************************************************************)
\* C2: the document written at --output has exactly ceil(count/24) pages,
\* each holding at most 24 QR+caption pairs.
C2_OutputPages ==
    output_written =>
        /\ Len(output) = CeilDiv(count, 24)
        /\ \A k \in 1..Len(output) : Len(output[k].labels) <= 24

(***************************************************************************)
(* C3                                                                      *)
(***************************************************************************)
\* C3: output page k of merge_pdfs is the template artwork plus exactly the
\* labels of overlay page k, and no label of another overlay page.
C3_FreshTemplateCopy ==
    (output_written /\ ~no_template) =>
        /\ Len(output) = Len(overlay)
        /\ \A k \in 1..Len(output) :
              /\ output[k].art = 1
              /\ output[k].labels = overlay[k].labels

(***************************************************************************)
(* C4                                                                      *)
(***************************************************************************)
\* C4: label i is on overlay page i div 24 in slot row (i mod 24) div 4,
\* col (i mod 24) mod 4; a page is started exactly at i > 0 with
\* i mod 24 = 0, so every page before the last holds 24 labels and no two
\* labels of a page share a slot.
C4_Pagination ==
    /\ SequencedAndDistinct(DrawnLabels)
    /\ pc = "overlay" => Len(c_pages) = (IF i = 0 THEN 0 ELSE (i - 1) \div 24)
    /\ \A p \in 1..Len(CanvasPages) :
          LET Ls == CanvasPages[p].labels
          IN  /\ p < Len(CanvasPages) => Len(Ls) = 24
              /\ \A m \in 1..Len(Ls) :
                    /\ p - 1 = Ls[m].idx \div 24
                    /\ Ls[m].row = (Ls[m].idx % 24) \div 4
                    /\ Ls[m].col = (Ls[m].idx % 24) % 4
              /\ \A m, n \in 1..Len(Ls) :
                    m # n => <<Ls[m].row, Ls[m].col>> # <<Ls[n].row, Ls[n].col>>

\* count = 25: page 1 holds labels 0..23, page 2 holds label 24 only.
C4_Witness ==
    /\ pc = "built" /\ count = 25
    /\ Len(overlay) = 2
    /\ Len(overlay[1].labels) = 24
    /\ Len(overlay[2].labels) = 1
    /\ overlay[2].labels[1].idx = 24

(***************************************************************************)
(* C5                                                                      *)
(***************************************************************************)
\* C5: the output is written only after all count labels are in the overlay
\* and, in template mode, after the template was read and every page merged;
\* a failed QR encoding and a missing, malformed or zero-page template abort
\* the run with nothing written.
C5_NoPartialSuccess ==
    /\ output_written =>
          /\ pc # "failed"
          /\ Len(LabelsOf(overlay)) = count
          /\ ~no_template =>
                /\ template_read
                /\ j = Len(overlay)
                /\ template.state = "ok"
                /\ template.pages >= 1
    /\ pc = "failed" => ~output_written

(***************************************************************************)
(* C6                                                                      *)
(***************************************************************************)
\* C6: with --no-template the template is never read, no merge step runs,
\* only a QR encoding can fail the run, and the file written is exactly the
\* overlay buffer.
C6_NoTemplatePassthrough ==
    no_template =>
        /\ ~template_read
        /\ pc # "merge"
        /\ writer = <<>>
        /\ pc = "failed" => i < count
        /\ output_written => output = overlay

\* A run without template succeeds although the template file is missing.
C6_Witness ==
    /\ no_template /\ template.state = "missing"
    /\ pc = "done" /\ output_written
    /\ Len(output) = 2

(***************************************************************************)
(* C7                                                                      *)
(***************************************************************************)
\* C7: the QR image's box lies inside its own label cell, horizontally
\* centred in it, and overlaps no other cell of the page.
C7_QrInsideCell ==
    \A p \in 1..Len(CanvasPages) :
        LET Ls == CanvasPages[p].labels
        IN  \A m \in 1..Len(Ls) :
                /\ Inside(QrBox(Ls[m]), Cell(Ls[m]))
                /\ Ls[m].qr_x - Ls[m].left
                      = (Ls[m].left + label_width) - (Ls[m].qr_x + qr_size)
                /\ \A n \in 1..Len(Ls) :
                      n # m => Disjoint(QrBox(Ls[m]), Cell(Ls[n]))

\* A full page: every slot has its neighbours.
C7_Witness ==
    \E p \in 1..Len(CanvasPages) :
        /\ Len(CanvasPages[p].labels) = 24
        /\ Inside(QrBox(CanvasPages[p].labels[24]), Cell(CanvasPages[p].labels[24]))

(***************************************************************************)
(* C8                                                                      *)
(***************************************************************************)
\* C8: the cells of a page (4 columns, 6 rows, left margin 18mm, top margin
\* 13mm, horizontal gap 8mm, equal vertical gaps) are pairwise
\* non-overlapping, lie within the letter page, and the 6 rows fill the
\* usable height exactly: the bottom row ends one top margin above the
\* page bottom.
C8_GridFitsPage ==
    \A p \in 1..Len(CanvasPages) :
        LET Ls == CanvasPages[p].labels
        IN  \A m \in 1..Len(Ls) :
                /\ Inside(Cell(Ls[m]), PageBox)
                /\ Ls[m].col \in 0..3 /\ Ls[m].row \in 0..5
                /\ Ls[m].col = 0 => Ls[m].left = 18 * mm
                /\ Ls[m].row = 0 => Ls[m].bottom + label_height = page_height - 13 * mm
                /\ Ls[m].row = 5 => Ls[m].bottom = 13 * mm
                /\ \A n \in 1..Len(Ls) :
                      /\ n # m => Disjoint(Cell(Ls[m]), Cell(Ls[n]))
                      /\ (Ls[n].row = Ls[m].row /\ Ls[n].col = Ls[m].col + 1)
                            => Ls[n].left - (Ls[m].left + label_width) = 8 * mm
                      /\ (Ls[n].col = Ls[m].col /\ Ls[n].row = Ls[m].row + 1)
                            => 5 * (Ls[m].bottom - (Ls[n].bottom + label_height))
                                  = (page_height - 2 * 13 * mm) - 6 * label_height

\* A page with all 24 cells, the bottom-right one included.
C8_Witness ==
    \E p \in 1..Len(CanvasPages) :
        /\ Len(CanvasPages[p].labels) = 24
        /\ CanvasPages[p].labels[24].row = 5
        /\ CanvasPages[p].labels[24].col = 3

(***************************************************************************)
(* C9                                                                      *)
(***************************************************************************)
\* C9: when merge_pdfs succeeds the output has as many pages as the overlay,
\* whatever the number of template pages; only the template's first page is
\* used, and later template pages never appear in the output.
C9_MergePageCount ==
    /\ (output_written /\ ~no_template) =>
          /\ Len(output) = Len(overlay)
          /\ \A k \in 1..Len(output) : output[k].art = 1
    /\ \A k \in 1..Len(writer) : writer[k].ref \in {0, 1}
    /\ \A p \in 2..Len(template_pdf) : template_pdf[p] = TemplatePage(p)

\* A two-page overlay merged with a two-page template.
C9_Witness ==
    /\ output_written /\ ~no_template
    /\ template.pages = 2
    /\ Len(overlay) = 2
    /\ Len(output) = 2

(***************************************************************************)
(* C10                                                                     *)
(***************************************************************************)
\* C10: the sheet count main prints is ceil(count/24).
C10_SheetCount == pc = "done" => sheets = CeilDiv(count, 24)

\* 49 labels are reported as 3 sheets.
C10_Witness == pc = "done" /\ count = 49 /\ sheets = 3

====
